---- MODULE Spec2Model ----
(***************************************************************************)
(* The step wizard of the two Streamlit applications                       *)
(*   neurological_assessment.py      (four steps,  variant "four")         *)
(*   neurological_assessment_old.py  (nine steps,  variant "nine")         *)
(*                                                                         *)
(* One user action (a widget edit or a button press) makes Streamlit run   *)
(* the script main() from the top; st.rerun() stops that run and runs the  *)
(* script again.  An action of this model is the whole of that: the run    *)
(* the action triggers and the run st.rerun() asks for.                    *)
(*                                                                         *)
(* Streamlit keeps the value of a widget only while the widget is drawn:   *)
(* a widget that a completed script run did not draw is forgotten, and a   *)
(* widget drawn with another default (value=, index=) is a new widget.     *)
(* `widgets` holds the widgets drawn by the last completed run.            *)
(***************************************************************************)
EXTENDS Integers, Sequences, FiniteSets, TLC

VARIABLES
    variant,          \* which of the two scripts this session runs
    session_state,    \* st.session_state: a dict, key -> value
    widgets,          \* the widgets on the page: key -> [param, val]
    view,             \* what the last run drew: step, buttons, messages, result
    responses,        \* the local dict `responses` of the questionnaire step
    event,            \* the user action handled last
    trail             \* history: the data before the last Back, the user's
                      \* own choice for the tracked question

vars == <<variant, session_state, widgets, view, responses, event, trail>>

----------------------------------------------------------------------------
(* Bounds of the model *)

MaxAgeEdit == 1       \* ages the user may type: default .. default + MaxAgeEdit
MaxIndex == 3         \* ID indices the user may type: 0 .. MaxIndex
MaxEditQ == 2         \* the user changes only the first MaxEditQ questions
MaxConditions == 1    \* the user ticks only the first MaxConditions conditions
MaxFiles == 1         \* files the user may put in the uploader

----------------------------------------------------------------------------
(* Python values *)

None == <<>>
Some(x) == <<x>>
EmptyDict == <<>>

dict_get(d, k, default) == IF k \in DOMAIN d THEN d[k] ELSE default

\* bool(x) of a number read from the CSV file
bool(x) == x # 0

\* str(n) of a non-negative int, and int(s) of such a string
str(n) == ToString(n)

int(s) == CHOOSE n \in 0..(MaxIndex + 2) : ToString(n) = s

\* `if x:` for a value that is None or an int
truthy(o) == o # None /\ o[1] # 0

Range(seq) == {seq[i] : i \in DOMAIN seq}

----------------------------------------------------------------------------
(* Program constants *)

QUESTIONNAIRE == <<"02", "03", "09", "13", "17", "20">>

QUESTIONNAIRE_old == <<"02", "03", "09", "13", "17", "20">>

MOTION_CONDITIONS ==
    <<"Arthritis", "Essential Tremor", "Multiple Sclerosis", "Other conditions">>

MOTION_CONDITIONS_old ==
    <<"Arthritis", "Essential Tremor", "Multiple Sclerosis", "Stroke",
      "Muscle weakness", "Joint problems", "Other neurological conditions">>

AgeDefault == 65

DiagnosisDefault == 50

DiagnosisDefault_old == 0

\* data/questionnaire_test.csv: row index ('Unnamed: 0') -> columns.  Row 1
\* answers a subset of the bank and a question outside it; row 3 is missing.
questionnaire_df ==
    (0 :> (("Unnamed: 0" :> 0) @@ ("02" :> 1) @@ ("03" :> 1)))
    @@ (1 :> (("Unnamed: 0" :> 1) @@ ("02" :> 1) @@ ("04" :> 1)))
    @@ (2 :> (("Unnamed: 0" :> 2) @@ ("02" :> 0) @@ ("03" :> 1) @@ ("09" :> 0)
              @@ ("13" :> 0) @@ ("17" :> 1) @@ ("20" :> 0)))

Variants == {"four", "nine"}

\* the steps the router of each script handles
Steps == 0..3

Steps_old == 0..8

----------------------------------------------------------------------------
(* Streamlit: widgets, messages, the page *)

\* a widget call: the stored widget when one with this key and this default
\* was drawn by the last run, a new widget showing `initial` otherwise
Widget(w, key, param, initial) ==
    IF key \in DOMAIN w /\ w[key].param = param
    THEN w[key]
    ELSE [param |-> param, val |-> initial]

QKey(q) == "q_" \o q

Msg(level, text, args) == [level |-> level, text |-> text, args |-> args]

BlankView(step) ==
    [step |-> step, buttons |-> {}, disabled |-> {}, messages |-> {},
     label |-> "", request |-> None]

Result(ss, w, v, rerun, resp) ==
    [ss |-> ss, w |-> w, view |-> v, rerun |-> rerun, responses |-> resp]

----------------------------------------------------------------------------
(* neurological_assessment.py *)

SessionDefaults ==
    [current_step |-> 0, user_data |-> EmptyDict,
     questionnaire_responses |-> EmptyDict, consent_given |-> FALSE,
     user_id |-> "", existing_user_data |-> None, id_index |-> None]

\* initialize_session_state that puts current_step back to 0 on every run
initialize_session_state_restarting(ss) ==
    [k \in DOMAIN ss \cup DOMAIN SessionDefaults |->
        IF k \in DOMAIN ss /\ k # "current_step" THEN ss[k] ELSE SessionDefaults[k]]

initialize_session_state(ss) ==
    [k \in DOMAIN ss \cup DOMAIN SessionDefaults |->
        IF k \in DOMAIN ss THEN ss[k] ELSE SessionDefaults[k]]

step_0_welcome(ss, w, clicked) ==
    LET v == [BlankView(0) EXCEPT !.buttons = {"start_btn"}]
    IN  IF clicked = "start_btn"
        THEN Result([ss EXCEPT !.current_step = 1], EmptyDict, v, TRUE, EmptyDict)
        ELSE Result(ss, EmptyDict, v, FALSE, EmptyDict)

\* basic_info_exit with the consent test left out of Continue
basic_info_exit_unguarded(ss, w, v, consent, clicked) ==
    CASE clicked = "back_1" ->
           Result([ss EXCEPT !.current_step = 0], w, v, TRUE, EmptyDict)
      [] clicked = "continue_1" ->
           Result([ss EXCEPT !.current_step = 2], w, v, TRUE, EmptyDict)
      [] OTHER -> Result(ss, w, v, FALSE, EmptyDict)

\* basic_info_exit with a refusal that drops the details entered
basic_info_exit_clearing(ss, w, v, consent, clicked) ==
    CASE clicked = "back_1" ->
           Result([ss EXCEPT !.current_step = 0], w, v, TRUE, EmptyDict)
      [] clicked = "continue_1" /\ consent ->
           Result([ss EXCEPT !.current_step = 2], w, v, TRUE, EmptyDict)
      [] clicked = "continue_1" /\ ~consent ->
           Result([ss EXCEPT !.user_data = EmptyDict], w,
                  [v EXCEPT !.messages =
                      {Msg("error", "Please provide consent to continue", <<>>)}],
                  FALSE, EmptyDict)
      [] OTHER -> Result(ss, w, v, FALSE, EmptyDict)

\* lines 387-400: Back; Continue, allowed with consent only
basic_info_exit(ss, w, v, consent, clicked) ==
    CASE clicked = "back_1" ->
           Result([ss EXCEPT !.current_step = 0], w, v, TRUE, EmptyDict)
      [] clicked = "continue_1" /\ consent ->
           Result([ss EXCEPT !.current_step = 2], w, v, TRUE, EmptyDict)
      [] clicked = "continue_1" /\ ~consent ->
           Result(ss, w,
                  [v EXCEPT !.messages =
                      {Msg("error", "Please provide consent to continue", <<>>)}],
                  FALSE, EmptyDict)
      [] OTHER -> Result(ss, w, v, FALSE, EmptyDict)

step_1_basic_info(ss, w, clicked) ==
    LET age_w == Widget(w, "age", AgeDefault, AgeDefault)
        gender_w == Widget(w, "gender", 0, "Male")
        kin_w == Widget(w, "appearance_in_kinship", 0, "No")
        has_w == Widget(w, "has_conditions", 0, "No")
        yes == has_w.val = "Yes"
        diag_w == Widget(w, "age_at_diagnosis", DiagnosisDefault, DiagnosisDefault)
        cond_w == Widget(w, "conditions", 0, {})
        consent_w == Widget(w, "consent", ss.consent_given, ss.consent_given)
        consent == consent_w.val
        drawn == ("age" :> age_w) @@ ("gender" :> gender_w)
                 @@ ("appearance_in_kinship" :> kin_w)
                 @@ ("has_conditions" :> has_w) @@ ("consent" :> consent_w)
                 @@ (IF yes
                     THEN ("age_at_diagnosis" :> diag_w) @@ ("conditions" :> cond_w)
                     ELSE EmptyDict)
        ss1 == [ss EXCEPT
                  !.user_data =
                      [age |-> age_w.val,
                       age_at_diagnosis |-> IF yes THEN diag_w.val ELSE 0,
                       gender |-> gender_w.val,
                       appearance_in_kinship |-> kin_w.val,
                       has_conditions |-> yes,
                       conditions |-> IF yes THEN cond_w.val ELSE {}],
                  !.consent_given = consent]
        v == [BlankView(1) EXCEPT
                  !.buttons = {"back_1", "continue_1"},
                  !.disabled = IF consent THEN {} ELSE {"continue_1"}]
    IN  basic_info_exit(ss1, drawn, v, consent, clicked)

get_user_answers_by_id(id_index) ==
    IF id_index \in DOMAIN questionnaire_df
    THEN Some(questionnaire_df[id_index])
    ELSE None

\* load_data that looks up index 0 like any other index
load_data_from_zero(ss, id_index, clicked) ==
    LET answers == get_user_answers_by_id(id_index)
    IN  CASE clicked = "load_csv_data" /\ id_index >= 0
                /\ answers # None /\ DOMAIN answers[1] # {} ->
               [ss |-> [ss EXCEPT !.id_index = Some(id_index),
                                  !.user_id = str(id_index),
                                  !.existing_user_data = None],
                messages |-> {}, rerun |-> TRUE]
          [] clicked = "load_csv_data" /\ id_index >= 0
                /\ ~(answers # None /\ DOMAIN answers[1] # {}) ->
               [ss |-> ss,
                messages |-> {Msg("error", "No data found for ID Index", <<id_index>>)},
                rerun |-> FALSE]
          [] clicked = "load_csv_data" /\ id_index < 0 ->
               [ss |-> [ss EXCEPT !.id_index = None, !.user_id = ""],
                messages |-> {Msg("info", "Starting fresh assessment", <<>>)},
                rerun |-> FALSE]
          [] OTHER -> [ss |-> ss, messages |-> {}, rerun |-> FALSE]

\* load_data whose fresh start clears the index and keeps the user id
load_data_keeping_user(ss, id_index, clicked) ==
    LET answers == get_user_answers_by_id(id_index)
    IN  CASE clicked = "load_csv_data" /\ id_index > 0
                /\ answers # None /\ DOMAIN answers[1] # {} ->
               [ss |-> [ss EXCEPT !.id_index = Some(id_index),
                                  !.user_id = str(id_index),
                                  !.existing_user_data = None],
                messages |-> {}, rerun |-> TRUE]
          [] clicked = "load_csv_data" /\ id_index > 0
                /\ ~(answers # None /\ DOMAIN answers[1] # {}) ->
               [ss |-> ss,
                messages |-> {Msg("error", "No data found for ID Index", <<id_index>>)},
                rerun |-> FALSE]
          [] clicked = "load_csv_data" /\ id_index <= 0 ->
               [ss |-> [ss EXCEPT !.id_index = None],
                messages |-> {Msg("info", "Starting fresh assessment", <<>>)},
                rerun |-> FALSE]
          [] OTHER -> [ss |-> ss, messages |-> {}, rerun |-> FALSE]

\* load_data that also looks up an ID as soon as it is typed
load_data_automatic(ss, id_index, clicked) ==
    LET answers == get_user_answers_by_id(id_index)
        wanted == clicked = "load_csv_data" \/ Some(id_index) # ss.id_index
    IN  CASE wanted /\ id_index > 0
                /\ answers # None /\ DOMAIN answers[1] # {} ->
               [ss |-> [ss EXCEPT !.id_index = Some(id_index),
                                  !.user_id = str(id_index),
                                  !.existing_user_data = None],
                messages |-> {}, rerun |-> TRUE]
          [] clicked = "load_csv_data" /\ id_index > 0
                /\ ~(answers # None /\ DOMAIN answers[1] # {}) ->
               [ss |-> ss,
                messages |-> {Msg("error", "No data found for ID Index", <<id_index>>)},
                rerun |-> FALSE]
          [] clicked = "load_csv_data" /\ id_index <= 0 ->
               [ss |-> [ss EXCEPT !.id_index = None, !.user_id = ""],
                messages |-> {Msg("info", "Starting fresh assessment", <<>>)},
                rerun |-> FALSE]
          [] OTHER -> [ss |-> ss, messages |-> {}, rerun |-> FALSE]

\* load_data with a miss that forgets the key loaded before
load_data_forgetting(ss, id_index, clicked) ==
    LET answers == get_user_answers_by_id(id_index)
    IN  CASE clicked = "load_csv_data" /\ id_index > 0
                /\ answers # None /\ DOMAIN answers[1] # {} ->
               [ss |-> [ss EXCEPT !.id_index = Some(id_index),
                                  !.user_id = str(id_index),
                                  !.existing_user_data = None],
                messages |-> {}, rerun |-> TRUE]
          [] clicked = "load_csv_data" /\ id_index > 0
                /\ ~(answers # None /\ DOMAIN answers[1] # {}) ->
               [ss |-> [ss EXCEPT !.id_index = None, !.user_id = ""],
                messages |-> {Msg("error", "No data found for ID Index", <<id_index>>)},
                rerun |-> FALSE]
          [] clicked = "load_csv_data" /\ id_index <= 0 ->
               [ss |-> [ss EXCEPT !.id_index = None, !.user_id = ""],
                messages |-> {Msg("info", "Starting fresh assessment", <<>>)},
                rerun |-> FALSE]
          [] OTHER -> [ss |-> ss, messages |-> {}, rerun |-> FALSE]

\* lines 461-476: the Load Data button
load_data(ss, id_index, clicked) ==
    LET answers == get_user_answers_by_id(id_index)
    IN  CASE clicked = "load_csv_data" /\ id_index > 0
                /\ answers # None /\ DOMAIN answers[1] # {} ->
               [ss |-> [ss EXCEPT !.id_index = Some(id_index),
                                  !.user_id = str(id_index),
                                  !.existing_user_data = None],
                messages |-> {}, rerun |-> TRUE]
          [] clicked = "load_csv_data" /\ id_index > 0
                /\ ~(answers # None /\ DOMAIN answers[1] # {}) ->
               [ss |-> ss,
                messages |-> {Msg("error", "No data found for ID Index", <<id_index>>)},
                rerun |-> FALSE]
          [] clicked = "load_csv_data" /\ id_index <= 0 ->
               [ss |-> [ss EXCEPT !.id_index = None, !.user_id = ""],
                messages |-> {Msg("info", "Starting fresh assessment", <<>>)},
                rerun |-> FALSE]
          [] OTHER -> [ss |-> ss, messages |-> {}, rerun |-> FALSE]

\* questionnaire_exit that stores an entry for the Yes answers only
questionnaire_exit_answered(ss, w, v, resp, clicked) ==
    LET yes == [q \in {q \in DOMAIN resp : resp[q]} |-> TRUE]
        completed_questions == Cardinality(DOMAIN yes)
        total_questions == Len(QUESTIONNAIRE)
        ss1 == [ss EXCEPT !.questionnaire_responses = yes]
    IN  CASE clicked = "back_2" ->
               Result([ss1 EXCEPT !.current_step = 1], w, v, TRUE, yes)
          [] clicked = "continue_2" /\ Cardinality(DOMAIN yes) = Len(QUESTIONNAIRE) ->
               Result([ss1 EXCEPT !.current_step = 3], w, v, TRUE, yes)
          [] clicked = "continue_2" /\ Cardinality(DOMAIN yes) # Len(QUESTIONNAIRE) ->
               Result(ss1, w,
                      [v EXCEPT !.messages = @ \cup
                          {Msg("error", "Please answer all questions to continue",
                               <<completed_questions, total_questions>>)}],
                      FALSE, yes)
          [] OTHER -> Result(ss1, w, v, FALSE, yes)

\* questionnaire_exit with the Results step number of the nine-step script
questionnaire_exit_step7(ss, w, v, resp, clicked) ==
    LET completed_questions == Cardinality(DOMAIN resp)
        total_questions == Len(QUESTIONNAIRE)
        ss1 == [ss EXCEPT !.questionnaire_responses = resp]
    IN  CASE clicked = "back_2" ->
               Result([ss1 EXCEPT !.current_step = 1], w, v, TRUE, resp)
          [] clicked = "continue_2" /\ Cardinality(DOMAIN resp) = Len(QUESTIONNAIRE) ->
               Result([ss1 EXCEPT !.current_step = 7], w, v, TRUE, resp)
          [] clicked = "continue_2" /\ Cardinality(DOMAIN resp) # Len(QUESTIONNAIRE) ->
               Result(ss1, w,
                      [v EXCEPT !.messages = @ \cup
                          {Msg("error", "Please answer all questions to continue",
                               <<completed_questions, total_questions>>)}],
                      FALSE, resp)
          [] OTHER -> Result(ss1, w, v, FALSE, resp)

\* questionnaire_exit that lets one missing answer through
questionnaire_exit_offbyone(ss, w, v, resp, clicked) ==
    LET completed_questions == Cardinality(DOMAIN resp)
        total_questions == Len(QUESTIONNAIRE)
        ss1 == [ss EXCEPT !.questionnaire_responses = resp]
    IN  CASE clicked = "back_2" ->
               Result([ss1 EXCEPT !.current_step = 1], w, v, TRUE, resp)
          [] clicked = "continue_2" /\ Cardinality(DOMAIN resp) >= Len(QUESTIONNAIRE) - 1 ->
               Result([ss1 EXCEPT !.current_step = 3], w, v, TRUE, resp)
          [] clicked = "continue_2" /\ Cardinality(DOMAIN resp) < Len(QUESTIONNAIRE) - 1 ->
               Result(ss1, w,
                      [v EXCEPT !.messages = @ \cup
                          {Msg("error", "Please answer all questions to continue",
                               <<completed_questions, total_questions>>)}],
                      FALSE, resp)
          [] OTHER -> Result(ss1, w, v, FALSE, resp)

\* lines 583-604: store the answers; Back; Get My Results
questionnaire_exit(ss, w, v, resp, clicked) ==
    LET completed_questions == Cardinality(DOMAIN resp)
        total_questions == Len(QUESTIONNAIRE)
        ss1 == [ss EXCEPT !.questionnaire_responses = resp]
    IN  CASE clicked = "back_2" ->
               Result([ss1 EXCEPT !.current_step = 1], w, v, TRUE, resp)
          [] clicked = "continue_2" /\ Cardinality(DOMAIN resp) = Len(QUESTIONNAIRE) ->
               Result([ss1 EXCEPT !.current_step = 3], w, v, TRUE, resp)
          [] clicked = "continue_2" /\ Cardinality(DOMAIN resp) # Len(QUESTIONNAIRE) ->
               Result(ss1, w,
                      [v EXCEPT !.messages = @ \cup
                          {Msg("error", "Please answer all questions to continue",
                               <<completed_questions, total_questions>>)}],
                      FALSE, resp)
          [] OTHER -> Result(ss1, w, v, FALSE, resp)

\* assessment_page whose radios pre-select Yes for a question without an
\* entry
assessment_page_default_yes(w, clicked, id_w, loaded) ==
    LET found == loaded.rerun
        ss1 == loaded.ss
        load_msgs == loaded.messages
        box_msgs ==
            IF truthy(ss1.id_index)
            THEN {Msg("box", "Loaded Your Apple Watch Data based on your ID",
                      <<ss1.id_index[1]>>)}
            ELSE {}
        csv_answers ==
            IF truthy(ss1.id_index) THEN get_user_answers_by_id(ss1.id_index[1])
            ELSE None
        existing_responses ==
            IF ss1.existing_user_data # None
            THEN dict_get(ss1.existing_user_data[1], "responses", EmptyDict)
            ELSE IF csv_answers # None /\ DOMAIN csv_answers[1] # {}
                 THEN [key \in Range(QUESTIONNAIRE) \cap DOMAIN csv_answers[1] |->
                          bool(csv_answers[1][key])]
                 ELSE EmptyDict
        default_value(q) == dict_get(existing_responses, q, TRUE)
        radio(q) == Widget(w, QKey(q),
                           IF default_value(q) THEN 1 ELSE 0,
                           IF default_value(q) THEN "Yes" ELSE "No")
        resp == [q \in Range(QUESTIONNAIRE) |-> radio(q).val = "Yes"]
        drawn == ("id_index" :> id_w)
                 @@ [k \in {QKey(q) : q \in Range(QUESTIONNAIRE)} |->
                        radio(CHOOSE q \in Range(QUESTIONNAIRE) : QKey(q) = k)]
        v == [BlankView(2) EXCEPT
                  !.buttons = {"load_csv_data", "back_2", "continue_2"},
                  !.messages = load_msgs \cup box_msgs]
    IN  IF found
        THEN Result(ss1, "id_index" :> id_w, v, TRUE, EmptyDict)
        ELSE questionnaire_exit(ss1, drawn, v, resp, clicked)

\* lines 478-604: the page below the Load Data button, `loaded` being what
\* the button left
assessment_page(w, clicked, id_w, loaded) ==
    LET found == loaded.rerun
        ss1 == loaded.ss
        load_msgs == loaded.messages
        box_msgs ==
            IF truthy(ss1.id_index)
            THEN {Msg("box", "Loaded Your Apple Watch Data based on your ID",
                      <<ss1.id_index[1]>>)}
            ELSE {}
        csv_answers ==
            IF truthy(ss1.id_index) THEN get_user_answers_by_id(ss1.id_index[1])
            ELSE None
        existing_responses ==
            IF ss1.existing_user_data # None
            THEN dict_get(ss1.existing_user_data[1], "responses", EmptyDict)
            ELSE IF csv_answers # None /\ DOMAIN csv_answers[1] # {}
                 THEN [key \in Range(QUESTIONNAIRE) \cap DOMAIN csv_answers[1] |->
                          bool(csv_answers[1][key])]
                 ELSE EmptyDict
        default_value(q) == dict_get(existing_responses, q, FALSE)
        radio(q) == Widget(w, QKey(q),
                           IF default_value(q) THEN 1 ELSE 0,
                           IF default_value(q) THEN "Yes" ELSE "No")
        resp == [q \in Range(QUESTIONNAIRE) |-> radio(q).val = "Yes"]
        drawn == ("id_index" :> id_w)
                 @@ [k \in {QKey(q) : q \in Range(QUESTIONNAIRE)} |->
                        radio(CHOOSE q \in Range(QUESTIONNAIRE) : QKey(q) = k)]
        v == [BlankView(2) EXCEPT
                  !.buttons = {"load_csv_data", "back_2", "continue_2"},
                  !.messages = load_msgs \cup box_msgs]
    IN  IF found
        THEN Result(ss1, "id_index" :> id_w, v, TRUE, EmptyDict)
        ELSE questionnaire_exit(ss1, drawn, v, resp, clicked)

step_2_assessment(ss, w, clicked) ==
    LET id_w == Widget(w, "id_index",
                       IF truthy(ss.id_index) THEN ss.id_index[1] ELSE 0,
                       IF truthy(ss.id_index) THEN ss.id_index[1] ELSE 0)
    IN  assessment_page(w, clicked, id_w, load_data(ss, id_w.val, clicked))

\* make_prediction that sends every stored answer and nothing for the rest
make_prediction_stored(user_data, questionnaire_responses) ==
    [endpoint |-> "predict_by_qn",
     payload |->
         ("age" :> user_data["age"])
         @@ ("age_at_diagnosis" :> user_data["age_at_diagnosis"])
         @@ ("appearance_in_kinship" :> user_data["appearance_in_kinship"])
         @@ ("gender" :> user_data["gender"])
         @@ [q \in DOMAIN questionnaire_responses |->
                IF questionnaire_responses[q] THEN 1 ELSE 0]]

\* lines 606-617: the payload; a missing user_data key raises KeyError
make_prediction(user_data, questionnaire_responses) ==
    LET required_questions == <<"02", "03", "09", "13", "17", "20">>
    IN  IF {"age", "age_at_diagnosis", "appearance_in_kinship", "gender"}
               \subseteq DOMAIN user_data
        THEN [endpoint |-> "predict_by_qn",
              payload |->
                  ("age" :> user_data["age"])
                  @@ ("age_at_diagnosis" :> user_data["age_at_diagnosis"])
                  @@ ("appearance_in_kinship" :> user_data["appearance_in_kinship"])
                  @@ ("gender" :> user_data["gender"])
                  @@ [q \in Range(required_questions) |->
                         IF dict_get(questionnaire_responses, q, FALSE) THEN 1 ELSE 0]]
        ELSE [endpoint |-> "KeyError", payload |-> EmptyDict]

\* predict_by_user_id that sends a demographic field along with the id
predict_by_user_id_with_age(user_id) ==
    [endpoint |-> "predict_by_user_id",
     payload |-> ("user_id" :> int(user_id)) @@ ("age" :> AgeDefault)]

predict_by_user_id(user_id) ==
    [endpoint |-> "predict_by_user_id", payload |-> ("user_id" :> int(user_id))]

\* api_result that takes the body of an error response for a result
api_result_lenient(api) == IF api.kind # "exception" THEN Some(api.body) ELSE None

\* lines 619-628, 632-642: the response of the service as the caller sees it
api_result(api) == IF api.kind = "ok" THEN Some(api.body) ELSE None

api_messages(api) ==
    CASE api.kind = "status" -> {Msg("error", "API Error", <<api.code>>)}
      [] api.kind = "exception" -> {Msg("error", "Connection Error", <<>>)}
      [] OTHER -> {}

\* IsValue that takes every value from n upward for n
IsValue_atleast(p, n) == p.num >= n * p.den

\* a prediction value is the rational num/den
IsValue(p, n) == p.num = n * p.den

\* step_3_results that takes a class code outside 0..2 for an invalid response
step_3_results_in_contract(ss, w, clicked, api) ==
    LET request == IF ss.user_id # ""
                   THEN predict_by_user_id(ss.user_id)
                   ELSE make_prediction(ss.user_data, ss.questionnaire_responses)
        prediction_result == api_result(api)
        v0 == [BlankView(3) EXCEPT !.request = Some(request),
                                   !.messages = api_messages(api)]
        prediction_class ==
            IF prediction_result = None THEN None
            ELSE dict_get(prediction_result[1], "prediction", None)
        label == CASE IsValue(prediction_class, 0) -> "Healthy"
                   [] IsValue(prediction_class, 1) -> "Parkinson's Disease"
                   [] OTHER -> "Other Motor Disease"
        v == [v0 EXCEPT !.label = label,
                        !.buttons = {"new_assessment", "back_to_edit"}]
    IN  CASE request.endpoint = "KeyError" ->
               Result(ss, EmptyDict,
                      [BlankView(3) EXCEPT !.request = Some(request),
                          !.messages = {Msg("exception", "KeyError", <<>>)}],
                      FALSE, EmptyDict)
          [] request.endpoint # "KeyError" /\ prediction_result = None ->
               Result(ss, EmptyDict,
                      [v0 EXCEPT !.messages = @ \cup
                          {Msg("error", "Unable to generate results. Please try again.", <<>>)}],
                      FALSE, EmptyDict)
          [] request.endpoint # "KeyError" /\ prediction_result # None
                /\ (\/ prediction_class = None
                    \/ \A n \in 0..2 : ~IsValue(prediction_class, n)) ->
               Result(ss, EmptyDict,
                      [v0 EXCEPT !.messages = @ \cup
                          {Msg("error", "Invalid response from prediction service.", <<>>)}],
                      FALSE, EmptyDict)
          [] OTHER ->
               CASE clicked = "new_assessment" ->
                      Result(EmptyDict, EmptyDict, v, TRUE, EmptyDict)
                 [] clicked = "back_to_edit" ->
                      Result([ss EXCEPT !.current_step = 2], EmptyDict, v, TRUE, EmptyDict)
                 [] OTHER -> Result(ss, EmptyDict, v, FALSE, EmptyDict)

step_3_results(ss, w, clicked, api) ==
    LET request == IF ss.user_id # ""
                   THEN predict_by_user_id(ss.user_id)
                   ELSE make_prediction(ss.user_data, ss.questionnaire_responses)
        prediction_result == api_result(api)
        v0 == [BlankView(3) EXCEPT !.request = Some(request),
                                   !.messages = api_messages(api)]
        prediction_class ==
            IF prediction_result = None THEN None
            ELSE dict_get(prediction_result[1], "prediction", None)
        label == CASE IsValue(prediction_class, 0) -> "Healthy"
                   [] IsValue(prediction_class, 1) -> "Parkinson's Disease"
                   [] OTHER -> "Other Motor Disease"
        v == [v0 EXCEPT !.label = label,
                        !.buttons = {"new_assessment", "back_to_edit"}]
    IN  CASE request.endpoint = "KeyError" ->
               Result(ss, EmptyDict,
                      [BlankView(3) EXCEPT !.request = Some(request),
                          !.messages = {Msg("exception", "KeyError", <<>>)}],
                      FALSE, EmptyDict)
          [] request.endpoint # "KeyError" /\ prediction_result = None ->
               Result(ss, EmptyDict,
                      [v0 EXCEPT !.messages = @ \cup
                          {Msg("error", "Unable to generate results. Please try again.", <<>>)}],
                      FALSE, EmptyDict)
          [] request.endpoint # "KeyError" /\ prediction_result # None
                /\ prediction_class = None ->
               Result(ss, EmptyDict,
                      [v0 EXCEPT !.messages = @ \cup
                          {Msg("error", "Invalid response from prediction service.", <<>>)}],
                      FALSE, EmptyDict)
          [] OTHER ->
               CASE clicked = "new_assessment" ->
                      Result(EmptyDict, EmptyDict, v, TRUE, EmptyDict)
                 [] clicked = "back_to_edit" ->
                      Result([ss EXCEPT !.current_step = 2], EmptyDict, v, TRUE, EmptyDict)
                 [] OTHER -> Result(ss, EmptyDict, v, FALSE, EmptyDict)

main(ss, w, clicked, api) ==
    LET s == initialize_session_state(ss)
    IN  CASE s.current_step = 0 -> step_0_welcome(s, w, clicked)
          [] s.current_step = 1 -> step_1_basic_info(s, w, clicked)
          [] s.current_step = 2 -> step_2_assessment(s, w, clicked)
          [] s.current_step = 3 -> step_3_results(s, w, clicked, api)
          [] OTHER -> Result(s, EmptyDict, BlankView(-1), FALSE, EmptyDict)

----------------------------------------------------------------------------
(* neurological_assessment_old.py *)

SessionDefaults_old ==
    [current_step |-> 0, user_data |-> EmptyDict, health_history |-> EmptyDict,
     motion_data_uploaded |-> FALSE, questionnaire_responses |-> EmptyDict,
     consent_given |-> FALSE]

initialize_session_state_old(ss) ==
    [k \in DOMAIN ss \cup DOMAIN SessionDefaults_old |->
        IF k \in DOMAIN ss THEN ss[k] ELSE SessionDefaults_old[k]]

step_0_welcome_old(ss, w, clicked) ==
    LET v == [BlankView(0) EXCEPT !.buttons = {"start_btn"}]
    IN  IF clicked = "start_btn"
        THEN Result([ss EXCEPT !.current_step = 1], EmptyDict, v, TRUE, EmptyDict)
        ELSE Result(ss, EmptyDict, v, FALSE, EmptyDict)

\* basic_info_exit_old whose Continue does not look at the consent box
basic_info_exit_old_unguarded(ss, w, v, consent, clicked) ==
    CASE clicked = "back_1" ->
           Result([ss EXCEPT !.current_step = 0], w, v, TRUE, EmptyDict)
      [] clicked = "continue_1" ->
           Result([ss EXCEPT !.current_step = 2], w, v, TRUE, EmptyDict)
      [] OTHER -> Result(ss, w, v, FALSE, EmptyDict)

\* lines 321-334: Back; Continue, allowed with consent only
basic_info_exit_old(ss, w, v, consent, clicked) ==
    CASE clicked = "back_1" ->
           Result([ss EXCEPT !.current_step = 0], w, v, TRUE, EmptyDict)
      [] clicked = "continue_1" /\ consent ->
           Result([ss EXCEPT !.current_step = 2], w, v, TRUE, EmptyDict)
      [] clicked = "continue_1" /\ ~consent ->
           Result(ss, w,
                  [v EXCEPT !.messages =
                      {Msg("error", "Please provide consent to continue", <<>>)}],
                  FALSE, EmptyDict)
      [] OTHER -> Result(ss, w, v, FALSE, EmptyDict)

step_1_basic_info_old(ss, w, clicked) ==
    LET age_w == Widget(w, "age", AgeDefault, AgeDefault)
        diag_w == Widget(w, "age_at_diagnosis", DiagnosisDefault_old, DiagnosisDefault_old)
        gender_w == Widget(w, "gender", 0, "Male")
        kin_w == Widget(w, "appearance_in_kinship", 0, "No")
        consent_w == Widget(w, "consent", ss.consent_given, ss.consent_given)
        consent == consent_w.val
        drawn == ("age" :> age_w) @@ ("age_at_diagnosis" :> diag_w)
                 @@ ("gender" :> gender_w) @@ ("appearance_in_kinship" :> kin_w)
                 @@ ("consent" :> consent_w)
        ss1 == [ss EXCEPT
                  !.user_data =
                      [age |-> age_w.val,
                       age_at_diagnosis |-> diag_w.val,
                       gender |-> gender_w.val,
                       appearance_in_kinship |-> kin_w.val],
                  !.consent_given = consent]
        v == [BlankView(1) EXCEPT
                  !.buttons = {"back_1", "continue_1"},
                  !.disabled = IF consent THEN {} ELSE {"continue_1"}]
    IN  basic_info_exit_old(ss1, drawn, v, consent, clicked)

step_2_health_history(ss, w, clicked) ==
    LET has_w == Widget(w, "has_conditions", 0, "No")
        yes == has_w.val = "Yes"
        cond_w == Widget(w, "conditions", 0, {})
        drawn == ("has_conditions" :> has_w)
                 @@ (IF yes THEN "conditions" :> cond_w ELSE EmptyDict)
        ss1 == [ss EXCEPT !.health_history =
                   [has_conditions |-> yes,
                    conditions |-> IF yes THEN cond_w.val ELSE {}]]
        v == [BlankView(2) EXCEPT !.buttons = {"back_2", "continue_2"}]
    IN  CASE clicked = "back_2" ->
               Result([ss1 EXCEPT !.current_step = 1], drawn, v, TRUE, EmptyDict)
          [] clicked = "continue_2" ->
               Result([ss1 EXCEPT !.current_step = 3], drawn, v, TRUE, EmptyDict)
          [] OTHER -> Result(ss1, drawn, v, FALSE, EmptyDict)

\* step_3_motion_intro with a Skip that also skips the questionnaire
step_3_motion_intro_skipping(ss, w, clicked) ==
    LET v == [BlankView(3) EXCEPT
                  !.buttons = {"motion_start", "skip_motion", "back_3"}]
    IN  CASE clicked = "motion_start" ->
               Result([ss EXCEPT !.current_step = 4], EmptyDict, v, TRUE, EmptyDict)
          [] clicked = "skip_motion" ->
               Result([ss EXCEPT !.current_step = 7], EmptyDict, v, TRUE, EmptyDict)
          [] clicked = "back_3" ->
               Result([ss EXCEPT !.current_step = 2], EmptyDict, v, TRUE, EmptyDict)
          [] OTHER -> Result(ss, EmptyDict, v, FALSE, EmptyDict)

step_3_motion_intro(ss, w, clicked) ==
    LET v == [BlankView(3) EXCEPT
                  !.buttons = {"motion_start", "skip_motion", "back_3"}]
    IN  CASE clicked = "motion_start" ->
               Result([ss EXCEPT !.current_step = 4], EmptyDict, v, TRUE, EmptyDict)
          [] clicked = "skip_motion" ->
               Result([ss EXCEPT !.current_step = 5], EmptyDict, v, TRUE, EmptyDict)
          [] clicked = "back_3" ->
               Result([ss EXCEPT !.current_step = 2], EmptyDict, v, TRUE, EmptyDict)
          [] OTHER -> Result(ss, EmptyDict, v, FALSE, EmptyDict)

\* step_4_motion_demo whose flag follows the uploader
step_4_motion_demo_tracking(ss, w, clicked) ==
    LET files_w == Widget(w, "uploaded_files", 0, 0)
        uploaded_files == files_w.val
        drawn == "uploaded_files" :> files_w
        ss1 == [ss EXCEPT !.motion_data_uploaded = uploaded_files > 0]
        v == [BlankView(4) EXCEPT
                  !.buttons = {"back_4", "continue_4"},
                  !.messages =
                      IF uploaded_files > 0
                      THEN {Msg("success", "file(s) uploaded successfully", <<uploaded_files>>)}
                      ELSE {}]
    IN  CASE clicked = "back_4" ->
               Result([ss1 EXCEPT !.current_step = 3], drawn, v, TRUE, EmptyDict)
          [] clicked = "continue_4" ->
               Result([ss1 EXCEPT !.current_step = 5], drawn, v, TRUE, EmptyDict)
          [] OTHER -> Result(ss1, drawn, v, FALSE, EmptyDict)

step_4_motion_demo(ss, w, clicked) ==
    LET files_w == Widget(w, "uploaded_files", 0, 0)
        uploaded_files == files_w.val
        drawn == "uploaded_files" :> files_w
        ss1 == IF uploaded_files > 0
               THEN [ss EXCEPT !.motion_data_uploaded = TRUE]
               ELSE ss
        v == [BlankView(4) EXCEPT
                  !.buttons = {"back_4", "continue_4"},
                  !.messages =
                      IF uploaded_files > 0
                      THEN {Msg("success", "file(s) uploaded successfully", <<uploaded_files>>)}
                      ELSE {}]
    IN  CASE clicked = "back_4" ->
               Result([ss1 EXCEPT !.current_step = 3], drawn, v, TRUE, EmptyDict)
          [] clicked = "continue_4" ->
               Result([ss1 EXCEPT !.current_step = 5], drawn, v, TRUE, EmptyDict)
          [] OTHER -> Result(ss1, drawn, v, FALSE, EmptyDict)

\* step_5_upload_confirmation whose Back returns to the introduction when
\* no motion data was uploaded
step_5_upload_confirmation_retracing(ss, w, clicked) ==
    LET v == [BlankView(5) EXCEPT
                  !.buttons = {"back_5", "continue_5"},
                  !.messages =
                      IF ss.motion_data_uploaded
                      THEN {Msg("box", "Motion data received successfully", <<>>)}
                      ELSE {Msg("box", "Proceeding with questionnaire", <<>>)}]
    IN  CASE clicked = "back_5" ->
               Result([ss EXCEPT !.current_step =
                                     IF ss.motion_data_uploaded THEN 4 ELSE 3],
                      EmptyDict, v, TRUE, EmptyDict)
          [] clicked = "continue_5" ->
               Result([ss EXCEPT !.current_step = 6], EmptyDict, v, TRUE, EmptyDict)
          [] OTHER -> Result(ss, EmptyDict, v, FALSE, EmptyDict)

step_5_upload_confirmation(ss, w, clicked) ==
    LET v == [BlankView(5) EXCEPT
                  !.buttons = {"back_5", "continue_5"},
                  !.messages =
                      IF ss.motion_data_uploaded
                      THEN {Msg("box", "Motion data received successfully", <<>>)}
                      ELSE {Msg("box", "Proceeding with questionnaire", <<>>)}]
    IN  CASE clicked = "back_5" ->
               Result([ss EXCEPT !.current_step = 4], EmptyDict, v, TRUE, EmptyDict)
          [] clicked = "continue_5" ->
               Result([ss EXCEPT !.current_step = 6], EmptyDict, v, TRUE, EmptyDict)
          [] OTHER -> Result(ss, EmptyDict, v, FALSE, EmptyDict)

\* lines 565-583: store the answers; Back; Get My Results
questionnaire_exit_old(ss, w, v, resp, clicked) ==
    LET ss1 == [ss EXCEPT !.questionnaire_responses = resp]
    IN  CASE clicked = "back_6" ->
               Result([ss1 EXCEPT !.current_step = 5], w, v, TRUE, resp)
          [] clicked = "continue_6" /\ Cardinality(DOMAIN resp) = Len(QUESTIONNAIRE_old) ->
               Result([ss1 EXCEPT !.current_step = 7], w, v, TRUE, resp)
          [] clicked = "continue_6" /\ Cardinality(DOMAIN resp) # Len(QUESTIONNAIRE_old) ->
               Result(ss1, w,
                      [v EXCEPT !.messages = @ \cup
                          {Msg("error", "Please answer all questions to continue", <<>>)}],
                      FALSE, resp)
          [] OTHER -> Result(ss1, w, v, FALSE, resp)

step_6_questionnaire(ss, w, clicked) ==
    LET radio(q) == Widget(w, QKey(q), 0, "No")
        resp == [q \in Range(QUESTIONNAIRE_old) |-> radio(q).val = "Yes"]
        drawn == [k \in {QKey(q) : q \in Range(QUESTIONNAIRE_old)} |->
                     radio(CHOOSE q \in Range(QUESTIONNAIRE_old) : QKey(q) = k)]
        v == [BlankView(6) EXCEPT !.buttons = {"back_6", "continue_6"}]
    IN  questionnaire_exit_old(ss, drawn, v, resp, clicked)

\* lines 585-598: the payload; a missing key raises KeyError
make_prediction_old(user_data, questionnaire_responses) ==
    IF {"age", "age_at_diagnosis", "appearance_in_kinship", "gender"}
           \subseteq DOMAIN user_data
       /\ {"02", "03", "09", "13", "17", "20"} \subseteq DOMAIN questionnaire_responses
    THEN [endpoint |-> "predict",
          payload |->
              ("age" :> user_data["age"])
              @@ ("age_at_diagnosis" :> user_data["age_at_diagnosis"])
              @@ ("appearance_in_kinship" :> user_data["appearance_in_kinship"])
              @@ ("gender" :> user_data["gender"])
              @@ [q \in {"02", "03", "09", "13", "17", "20"} |->
                     questionnaire_responses[q]]]
    ELSE [endpoint |-> "KeyError", payload |-> EmptyDict]

\* OverHalf that counts the threshold itself as over it
OverHalf_atleast(p) == 2 * p.num >= p.den

\* prediction > 0.5 for the rational num/den
OverHalf(p) == 2 * p.num > p.den

\* step_7_results that offers Continue to Summary after a failed call too
step_7_results_passing(ss, w, clicked, api) ==
    LET request == make_prediction_old(ss.user_data, ss.questionnaire_responses)
        v == [BlankView(7) EXCEPT
                 !.request = Some(request),
                 !.messages = api_messages(api) \cup
                     (IF api_result(api) = None
                      THEN {Msg("error", "Unable to generate results. Please try again.", <<>>)}
                      ELSE {}),
                 !.label = IF api_result(api) = None THEN ""
                           ELSE IF OverHalf(dict_get(api_result(api)[1], "prediction",
                                                     [num |-> 0, den |-> 1]))
                                THEN "higher risk for Parkinson's disease"
                                ELSE "no significant risk for Parkinson's disease",
                 !.buttons = {"continue_7"}]
    IN  IF clicked = "continue_7"
        THEN Result([ss EXCEPT !.current_step = 8], EmptyDict, v, TRUE, EmptyDict)
        ELSE Result(ss, EmptyDict, v, FALSE, EmptyDict)

step_7_results(ss, w, clicked, api) ==
    LET request == make_prediction_old(ss.user_data, ss.questionnaire_responses)
        prediction_result == api_result(api)
        v0 == [BlankView(7) EXCEPT !.request = Some(request),
                                   !.messages = api_messages(api)]
        prediction == dict_get(prediction_result[1], "prediction", [num |-> 0, den |-> 1])
        v == [v0 EXCEPT
                 !.label = IF OverHalf(prediction)
                           THEN "higher risk for Parkinson's disease"
                           ELSE "no significant risk for Parkinson's disease",
                 !.messages = @ \cup
                     (IF ss.motion_data_uploaded
                      THEN {Msg("box", "Motion Data Insights", <<>>)}
                      ELSE {}),
                 !.buttons = {"continue_7"}]
    IN  CASE request.endpoint = "KeyError" ->
               Result(ss, EmptyDict,
                      [BlankView(7) EXCEPT !.request = Some(request),
                          !.messages = {Msg("exception", "KeyError", <<>>)}],
                      FALSE, EmptyDict)
          [] request.endpoint # "KeyError" /\ prediction_result = None ->
               Result(ss, EmptyDict,
                      [v0 EXCEPT !.messages = @ \cup
                          {Msg("error", "Unable to generate results. Please try again.", <<>>)}],
                      FALSE, EmptyDict)
          [] OTHER ->
               IF clicked = "continue_7"
               THEN Result([ss EXCEPT !.current_step = 8], EmptyDict, v, TRUE, EmptyDict)
               ELSE Result(ss, EmptyDict, v, FALSE, EmptyDict)

\* step_8_closing whose Schedule Retest reopens the questionnaire
step_8_closing_retesting(ss, w, clicked) ==
    LET v == [BlankView(8) EXCEPT
                  !.buttons = {"retest", "download", "tips", "new_assessment"},
                  !.messages =
                      CASE clicked = "retest" ->
                             {Msg("info", "Set a reminder to retake this assessment", <<>>)}
                        [] clicked = "download" ->
                             {Msg("info", "Download feature coming soon", <<>>)}
                        [] clicked = "tips" ->
                             {Msg("info", "Sign up for monthly motion health tips", <<>>)}
                        [] OTHER -> {}]
    IN  CASE clicked = "new_assessment" ->
               Result(EmptyDict, EmptyDict, v, TRUE, EmptyDict)
          [] clicked = "retest" ->
               Result([ss EXCEPT !.current_step = 6], EmptyDict, v, TRUE, EmptyDict)
          [] OTHER -> Result(ss, EmptyDict, v, FALSE, EmptyDict)

step_8_closing(ss, w, clicked) ==
    LET v == [BlankView(8) EXCEPT
                  !.buttons = {"retest", "download", "tips", "new_assessment"},
                  !.messages =
                      CASE clicked = "retest" ->
                             {Msg("info", "Set a reminder to retake this assessment", <<>>)}
                        [] clicked = "download" ->
                             {Msg("info", "Download feature coming soon", <<>>)}
                        [] clicked = "tips" ->
                             {Msg("info", "Sign up for monthly motion health tips", <<>>)}
                        [] OTHER -> {}]
    IN  IF clicked = "new_assessment"
        THEN Result(EmptyDict, EmptyDict, v, TRUE, EmptyDict)
        ELSE Result(ss, EmptyDict, v, FALSE, EmptyDict)

\* main_old without the route to the upload confirmation
main_old_unrouted(ss, w, clicked, api) ==
    LET s == initialize_session_state_old(ss)
    IN  CASE s.current_step = 0 -> step_0_welcome_old(s, w, clicked)
          [] s.current_step = 1 -> step_1_basic_info_old(s, w, clicked)
          [] s.current_step = 2 -> step_2_health_history(s, w, clicked)
          [] s.current_step = 3 -> step_3_motion_intro(s, w, clicked)
          [] s.current_step = 4 -> step_4_motion_demo(s, w, clicked)
          [] s.current_step = 6 -> step_6_questionnaire(s, w, clicked)
          [] s.current_step = 7 -> step_7_results(s, w, clicked, api)
          [] s.current_step = 8 -> step_8_closing(s, w, clicked)
          [] OTHER -> Result(s, EmptyDict, BlankView(-1), FALSE, EmptyDict)

main_old(ss, w, clicked, api) ==
    LET s == initialize_session_state_old(ss)
    IN  CASE s.current_step = 0 -> step_0_welcome_old(s, w, clicked)
          [] s.current_step = 1 -> step_1_basic_info_old(s, w, clicked)
          [] s.current_step = 2 -> step_2_health_history(s, w, clicked)
          [] s.current_step = 3 -> step_3_motion_intro(s, w, clicked)
          [] s.current_step = 4 -> step_4_motion_demo(s, w, clicked)
          [] s.current_step = 5 -> step_5_upload_confirmation(s, w, clicked)
          [] s.current_step = 6 -> step_6_questionnaire(s, w, clicked)
          [] s.current_step = 7 -> step_7_results(s, w, clicked, api)
          [] s.current_step = 8 -> step_8_closing(s, w, clicked)
          [] OTHER -> Result(s, EmptyDict, BlankView(-1), FALSE, EmptyDict)

----------------------------------------------------------------------------
(* One user action: the script run it triggers and the run st.rerun() asks *)
(* for.  A run stopped by st.rerun() forgets no widget; the run that ends  *)
(* normally keeps exactly the widgets it drew.                             *)

NoClick == "none"

Script(v, ss, w, clicked, api) ==
    IF v = "four" THEN main(ss, w, clicked, api) ELSE main_old(ss, w, clicked, api)

Requests(r) == IF r.view.request = None THEN 0 ELSE 1

RECURSIVE Handle(_, _, _, _, _)

\* the run r followed by the runs h that st.rerun() asked for: the result
\* of the last run, the prediction requests of all
Chain(r, h) == [result |-> h.result, requests |-> Requests(r) + h.requests]

\* after the run r: nothing more when r ended normally, the run st.rerun()
\* asks for otherwise
Rerun(v, w, api, r) ==
    IF r.rerun
    THEN Chain(r, Handle(v, r.ss, r.w @@ w, NoClick, api))
    ELSE [result |-> r, requests |-> Requests(r)]

Handle(v, ss, w, clicked, api) == Rerun(v, w, api, Script(v, ss, w, clicked, api))

----------------------------------------------------------------------------
(* The environment: the prediction service and the user's inputs *)

PredictionValues ==
    {[num |-> -1, den |-> 1], [num |-> 0, den |-> 1], [num |-> 1, den |-> 2],
     [num |-> 1, den |-> 1], [num |-> 2, den |-> 1], [num |-> 3, den |-> 1]}

\* no response, an error status, 200 without the field, 200 with a prediction
ApiResponses ==
    {[kind |-> "exception", code |-> 0, body |-> EmptyDict],
     [kind |-> "status", code |-> 500, body |-> EmptyDict],
     [kind |-> "ok", code |-> 200, body |-> EmptyDict]}
    \cup {[kind |-> "ok", code |-> 200, body |-> ("prediction" :> p)] :
             p \in PredictionValues}

Choices(v, key) ==
    CASE key = "age" -> AgeDefault..(AgeDefault + MaxAgeEdit)
      [] key = "age_at_diagnosis" ->
             IF v = "four"
             THEN DiagnosisDefault..(DiagnosisDefault + MaxAgeEdit)
             ELSE DiagnosisDefault_old..(DiagnosisDefault_old + MaxAgeEdit)
      [] key = "gender" -> {"Male", "Female"}
      [] key = "appearance_in_kinship" -> {"No", "Yes"}
      [] key = "has_conditions" -> {"No", "Yes"}
      [] key = "conditions" ->
             IF v = "four"
             THEN SUBSET {MOTION_CONDITIONS[i] : i \in 1..MaxConditions}
             ELSE SUBSET {MOTION_CONDITIONS_old[i] : i \in 1..MaxConditions}
      [] key = "consent" -> BOOLEAN
      [] key = "id_index" -> 0..MaxIndex
      [] key = "uploaded_files" -> 0..MaxFiles
      [] OTHER -> {"No", "Yes"}

EditableQuestions == {QUESTIONNAIRE[i] : i \in 1..MaxEditQ}

TrackedQuestion == "02"

\* the button that submits the questionnaire
SubmitEvent == IF variant = "four" THEN "continue_2" ELSE "continue_6"

\* the buttons that end a visit to the results: Back and New Assessment
LeaveEvents == {"back_to_edit", "new_assessment"}

\* nothing happened yet
NoTrail == [snap |-> None, override |-> None, requests |-> 0, response |-> None]

BackEvents ==
    {"back_1", "back_2", "back_3", "back_4", "back_5", "back_6", "back_to_edit"}

\* the history kept for the properties: the data before a Back (and the
\* action that preceded the Back) until the action after it, the user's own answer to the tracked question since
\* the last Load Data, the prediction requests sent from the submit of the
\* questionnaire up to the next Back or New Assessment, and the response to
\* the request of the action
NextTrail(ev, choice, ss0, ss1, h) ==
    [snap |->
        IF ev \in BackEvents /\ ss1.current_step = ss0.current_step - 1
        THEN Some([phase |-> "back", step |-> ss0.current_step, via |-> event,
                   user_data |-> ss0.user_data,
                   questionnaire_responses |-> ss0.questionnaire_responses])
        ELSE IF trail.snap # None /\ trail.snap[1].phase = "back"
                /\ choice = None /\ ss1.current_step = trail.snap[1].step
             THEN Some([trail.snap[1] EXCEPT !.phase = "forward"])
             ELSE None,
     override |->
        IF choice # None /\ choice[1] = QKey(TrackedQuestion)
        THEN Some(choice[2])
        ELSE IF ev \in {"load_csv_data", "new_assessment"}
             THEN None
             ELSE trail.override,
     requests |->
        (IF ev = SubmitEvent \/ event \in LeaveEvents THEN 0 ELSE trail.requests)
        + h.requests,
     response |-> IF h.requests = 0 THEN None ELSE Some(h.api)]

\* the outcome h of the action becomes the state
Apply(ev, choice, h) ==
    /\ session_state' = h.result.ss
    /\ widgets' = h.result.w
    /\ view' = h.result.view
    /\ responses' = h.result.responses
    /\ event' = ev
    /\ trail' = NextTrail(ev, choice, session_state, h.result.ss, h)
    /\ UNCHANGED variant

Quiet == CHOOSE a \in ApiResponses : a.kind = "exception"

\* the outcomes the service's responses allow, H[api] being the outcome of
\* the action under the response api: one outcome when the action sends no
\* request, one for each response when it sends some
Served(H) ==
    IF H[Quiet].requests = 0
    THEN {[result |-> H[Quiet].result, requests |-> 0, api |-> Quiet]}
    ELSE {[result |-> H[api].result, requests |-> H[api].requests, api |-> api] :
             api \in ApiResponses}

Outcomes(v, ss, w, clicked) ==
    Served([api \in ApiResponses |-> Handle(v, ss, w, clicked, api)])

\* a button of the page is pressed (the actions press the buttons the page
\* shows).  A button drawn disabled can still be pressed by a click sent
\* together with the edit that disables it, so the handler's own test decides.
Press(b) ==
    \E h \in Outcomes(variant, session_state, widgets, b) : Apply(b, None, h)

\* a widget gets another value (the actions edit the widgets the page shows)
Edit(ev, key, val) ==
    /\ val \in Choices(variant, key)
    /\ val # widgets[key].val
    /\ \E h \in Outcomes(variant, session_state,
                          [widgets EXCEPT ![key].val = val], NoClick) :
          Apply(ev, <<key, val>>, h)

----------------------------------------------------------------------------
(* The specification *)

Init ==
    /\ variant \in Variants
    /\ \E h \in Outcomes(variant, EmptyDict, EmptyDict, NoClick) :
          /\ session_state = h.result.ss
          /\ widgets = h.result.w
          /\ view = h.result.view
          /\ responses = h.result.responses
    /\ event = NoClick
    /\ trail = NoTrail

start_btn ==
    /\ "start_btn" \in view.buttons
    /\ Press("start_btn")

edit_basic_info ==
    \E key \in {"age", "age_at_diagnosis", "gender", "appearance_in_kinship"} :
        \E val \in Choices(variant, key) :
            /\ key \in DOMAIN widgets
            /\ Edit("edit_basic_info", key, val)

edit_has_conditions ==
    \E val \in {"No", "Yes"} :
        /\ "has_conditions" \in DOMAIN widgets
        /\ Edit("edit_has_conditions", "has_conditions", val)

edit_conditions ==
    \E val \in Choices(variant, "conditions") :
        /\ "conditions" \in DOMAIN widgets
        /\ Edit("edit_conditions", "conditions", val)

toggle_consent ==
    \E val \in BOOLEAN :
        /\ "consent" \in DOMAIN widgets
        /\ Edit("toggle_consent", "consent", val)

back_1 ==
    /\ "back_1" \in view.buttons
    /\ Press("back_1")

continue_1 ==
    /\ "continue_1" \in view.buttons
    /\ Press("continue_1")

edit_id_index ==
    \E val \in 0..MaxIndex :
        /\ "id_index" \in DOMAIN widgets
        /\ Edit("edit_id_index", "id_index", val)

load_csv_data ==
    /\ "load_csv_data" \in view.buttons
    /\ Press("load_csv_data")

select_answer ==
    \E q \in EditableQuestions :
        \E val \in {"No", "Yes"} :
            /\ QKey(q) \in DOMAIN widgets
            /\ Edit("select_answer", QKey(q), val)

back_2 ==
    /\ "back_2" \in view.buttons
    /\ Press("back_2")

continue_2 ==
    /\ "continue_2" \in view.buttons
    /\ Press("continue_2")

new_assessment ==
    /\ "new_assessment" \in view.buttons
    /\ Press("new_assessment")

back_to_edit ==
    /\ "back_to_edit" \in view.buttons
    /\ Press("back_to_edit")

motion_start ==
    /\ "motion_start" \in view.buttons
    /\ Press("motion_start")

skip_motion ==
    /\ "skip_motion" \in view.buttons
    /\ Press("skip_motion")

back_3 ==
    /\ "back_3" \in view.buttons
    /\ Press("back_3")

upload_files ==
    \E val \in 0..MaxFiles :
        /\ "uploaded_files" \in DOMAIN widgets
        /\ Edit("upload_files", "uploaded_files", val)

back_4 ==
    /\ "back_4" \in view.buttons
    /\ Press("back_4")

continue_4 ==
    /\ "continue_4" \in view.buttons
    /\ Press("continue_4")

back_5 ==
    /\ "back_5" \in view.buttons
    /\ Press("back_5")

continue_5 ==
    /\ "continue_5" \in view.buttons
    /\ Press("continue_5")

back_6 ==
    /\ "back_6" \in view.buttons
    /\ Press("back_6")

continue_6 ==
    /\ "continue_6" \in view.buttons
    /\ Press("continue_6")

continue_7 ==
    /\ "continue_7" \in view.buttons
    /\ Press("continue_7")

retest ==
    /\ "retest" \in view.buttons
    /\ Press("retest")

download ==
    /\ "download" \in view.buttons
    /\ Press("download")

tips ==
    /\ "tips" \in view.buttons
    /\ Press("tips")

Next ==
    \/ start_btn
    \/ edit_basic_info
    \/ edit_has_conditions
    \/ edit_conditions
    \/ toggle_consent
    \/ back_1
    \/ continue_1
    \/ edit_id_index
    \/ load_csv_data
    \/ select_answer
    \/ back_2
    \/ continue_2
    \/ new_assessment
    \/ back_to_edit
    \/ motion_start
    \/ skip_motion
    \/ back_3
    \/ upload_files
    \/ back_4
    \/ continue_4
    \/ back_5
    \/ continue_5
    \/ back_6
    \/ continue_6
    \/ continue_7
    \/ retest
    \/ download
    \/ tips

Spec == Init /\ [][Next]_vars

----------------------------------------------------------------------------
(* The submit of the questionnaire as a function of the answers present:   *)
(* the session stands at the questionnaire step and the local dict         *)
(* `responses` is any partial map from the bank to booleans.               *)

PartialAnswers ==
    UNION {[keys -> BOOLEAN] : keys \in SUBSET Range(QUESTIONNAIRE)}

AtQuestionnaire(v) ==
    IF v = "four"
    THEN [SessionDefaults EXCEPT
             !.current_step = 2, !.consent_given = TRUE,
             !.user_data = [age |-> AgeDefault, age_at_diagnosis |-> 0,
                            gender |-> "Male", appearance_in_kinship |-> "No",
                            has_conditions |-> FALSE, conditions |-> {}]]
    ELSE [SessionDefaults_old EXCEPT
             !.current_step = 6, !.consent_given = TRUE,
             !.user_data = [age |-> AgeDefault, age_at_diagnosis |-> 0,
                            gender |-> "Male", appearance_in_kinship |-> "No"],
             !.health_history = [has_conditions |-> FALSE, conditions |-> {}]]

InitSubmit ==
    /\ variant \in Variants
    /\ session_state = AtQuestionnaire(variant)
    /\ LET r == Script(variant, session_state, EmptyDict, NoClick, Quiet)
       IN  widgets = r.w /\ view = r.view
    /\ responses \in PartialAnswers
    /\ event = NoClick
    /\ trail = NoTrail

submit_answers ==
    /\ event = NoClick
    /\ \E api \in ApiResponses :
          LET r1 == IF variant = "four"
                    THEN questionnaire_exit(session_state, widgets, view,
                                            responses, "continue_2")
                    ELSE questionnaire_exit_old(session_state, widgets, view,
                                                responses, "continue_6")
              r == IF r1.rerun
                   THEN Script(variant, r1.ss, r1.w @@ widgets, NoClick, api)
                   ELSE r1
          IN  /\ session_state' = r.ss
              /\ widgets' = r.w
              /\ view' = r.view
              /\ event' = IF variant = "four" THEN "continue_2" ELSE "continue_6"
    /\ UNCHANGED <<variant, responses, trail>>

NextSubmit == submit_answers

SpecSubmit == InitSubmit /\ [][NextSubmit]_vars

----------------------------------------------------------------------------
(* The payload of make_prediction as a function of its arguments: any      *)
(* user_data of the BasicInfo form and any stored answers, some absent,    *)
(* some to questions of the dataset that are not in the bank.              *)

\* a question of data/questionnaire_test.csv that the bank does not ask
ExtraQuestions == {"04"}

StoredAnswers ==
    UNION {[keys -> BOOLEAN] :
               keys \in SUBSET (Range(QUESTIONNAIRE) \cup ExtraQuestions)}

UserDatas ==
    {[age |-> a, age_at_diagnosis |-> 0, gender |-> g,
      appearance_in_kinship |-> "No", has_conditions |-> FALSE, conditions |-> {}] :
         a \in Choices("four", "age"), g \in Choices("four", "gender")}

InitPayload ==
    /\ variant = "four"
    /\ \E ud \in UserDatas, qr \in StoredAnswers :
          session_state = [SessionDefaults EXCEPT
                              !.current_step = 3, !.consent_given = TRUE,
                              !.user_data = ud, !.questionnaire_responses = qr]
    /\ widgets = EmptyDict
    /\ view = BlankView(3)
    /\ responses = EmptyDict
    /\ event = NoClick
    /\ trail = NoTrail

build_payload ==
    /\ event = NoClick
    /\ view' = [view EXCEPT !.request =
                    Some(make_prediction(session_state.user_data,
                                         session_state.questionnaire_responses))]
    /\ event' = "make_prediction"
    /\ UNCHANGED <<variant, session_state, widgets, responses, trail>>

NextPayload == build_payload

SpecPayload == InitPayload /\ [][NextPayload]_vars

----------------------------------------------------------------------------
(* Two users of one server.  Streamlit keeps one st.session_state and one  *)
(* set of widgets per browser session; here session_state, widgets, view   *)
(* and responses hold one value for each session, and event names the      *)
(* session that acted.  The two users press the buttons of their pages,    *)
(* tick the consent box and type ID indexes, in any order.                 *)

Sessions == {"a", "b"}

PairKeys == {"consent", "id_index"}

\* the store with the value of session sid replaced: every session has its own
Store_global(store, sid, val) == [s \in DOMAIN store |-> val]

\* st.session_state (and the widget state) of the run of session sid:
\* Streamlit resolves it to the state of that session alone
Store(store, sid, val) == [store EXCEPT ![sid] = val]

ApplyTo(sid, ev, h) ==
    /\ session_state' = Store(session_state, sid, h.result.ss)
    /\ widgets' = Store(widgets, sid, h.result.w)
    /\ view' = Store(view, sid, h.result.view)
    /\ responses' = Store(responses, sid, h.result.responses)
    /\ event' = <<sid, ev>>
    /\ UNCHANGED <<variant, trail>>

InitPair ==
    /\ variant \in Variants
    /\ \E h \in Outcomes(variant, EmptyDict, EmptyDict, NoClick) :
          /\ session_state = [sid \in Sessions |-> h.result.ss]
          /\ widgets = [sid \in Sessions |-> h.result.w]
          /\ view = [sid \in Sessions |-> h.result.view]
          /\ responses = [sid \in Sessions |-> h.result.responses]
    /\ event = <<NoClick, NoClick>>
    /\ trail = NoTrail

user_press ==
    \E sid \in Sessions :
        \E b \in view[sid].buttons :
            \E h \in Outcomes(variant, session_state[sid], widgets[sid], b) :
                ApplyTo(sid, b, h)

user_edit ==
    \E sid \in Sessions :
        \E key \in PairKeys \cap DOMAIN widgets[sid] :
            \E val \in Choices(variant, key) \ {widgets[sid][key].val} :
                \E h \in Outcomes(variant, session_state[sid],
                                  [widgets[sid] EXCEPT ![key].val = val], NoClick) :
                    ApplyTo(sid, key, h)

NextPair == user_press \/ user_edit

SpecPair == InitPair /\ [][NextPair]_vars

----------------------------------------------------------------------------
(* The cooperative user and the cooperative service: the user fills in the  *)
(* pages, ticks the consent box and presses the forward button of the page, *)
(* never Back; every prediction call gets a 200 response that carries a     *)
(* prediction.  The user keeps pressing forward while a forward button is   *)
(* offered: the weak fairness of press_forward, WF_vars(press_forward),     *)
(* written with the state predicate ForwardOffered for ENABLED              *)
(* <<press_forward>>_vars and with the event of the step for the action.    *)

ForwardButtons ==
    {"start_btn", "continue_1", "continue_2", "motion_start", "skip_motion",
     "continue_4", "continue_5", "continue_6", "continue_7"}

\* the run sent no request or its requests got a prediction
Cooperative(h) ==
    \/ h.requests = 0
    \/ /\ h.api.kind = "ok"
       /\ "prediction" \in DOMAIN h.api.body

press_forward ==
    \E b \in ForwardButtons \cap (view.buttons \ view.disabled) :
        \E h \in Outcomes(variant, session_state, widgets, b) :
            /\ Cooperative(h)
            /\ Apply(b, None, h)

give_consent ==
    /\ "consent" \in DOMAIN widgets
    /\ Edit("toggle_consent", "consent", TRUE)

NextProgress ==
    \/ press_forward
    \/ give_consent
    \/ edit_basic_info
    \/ edit_id_index
    \/ load_csv_data
    \/ select_answer
    \/ upload_files

\* the page offers a forward button that is not disabled
ForwardOffered == ForwardButtons \cap (view.buttons \ view.disabled) # {}

FairForward ==
    \/ []<>(~ForwardOffered)
    \/ []<><<event' \in ForwardButtons>>_vars

SpecProgress == Init /\ [][NextProgress]_vars /\ FairForward

----------------------------------------------------------------------------
(* initialize_session_state as a function of st.session_state: the session *)
(* of any step, with any subset of its keys present (none in a session     *)
(* just created or just deleted by New Assessment, all of them afterwards). *)

Restrict(d, keys) == [k \in keys |-> d[k]]

InitialisedSessions(v) ==
    IF v = "four"
    THEN {[SessionDefaults EXCEPT
              !.current_step = c, !.consent_given = g, !.user_data = ud,
              !.user_id = key.user_id, !.id_index = key.id_index] :
             c \in Steps, g \in BOOLEAN,
             ud \in {EmptyDict, [age |-> AgeDefault, gender |-> "Female"]},
             key \in {[user_id |-> "", id_index |-> None],
                      [user_id |-> "1", id_index |-> Some(1)]}}
    ELSE {[SessionDefaults_old EXCEPT
              !.current_step = c, !.consent_given = g,
              !.motion_data_uploaded = m] :
             c \in Steps_old, g \in BOOLEAN, m \in BOOLEAN}

SessionInputs(v) ==
    UNION {{Restrict(ss, keys) : keys \in SUBSET DOMAIN ss} :
              ss \in InitialisedSessions(v)}

InitInitialize ==
    /\ variant \in Variants
    /\ session_state \in SessionInputs(variant)
    /\ widgets = EmptyDict
    /\ view = BlankView(0)
    /\ responses = EmptyDict
    /\ event = NoClick
    /\ trail = NoTrail

run_initialize ==
    /\ session_state' = IF variant = "four"
                        THEN initialize_session_state(session_state)
                        ELSE initialize_session_state_old(session_state)
    /\ event' = "initialize_session_state"
    /\ UNCHANGED <<variant, widgets, view, responses, trail>>

NextInitialize == run_initialize

SpecInitialize == InitInitialize /\ [][NextInitialize]_vars

----------------------------------------------------------------------------
(* Shorthands for the properties *)

current_step == session_state.current_step

Bank == IF variant = "four" THEN Range(QUESTIONNAIRE) ELSE Range(QUESTIONNAIRE_old)

QuestionnaireStep == IF variant = "four" THEN 2 ELSE 6

ResultsStep == IF variant = "four" THEN 3 ELSE 7

TerminalStep == IF variant = "four" THEN 3 ELSE 8

Answered == Cardinality(DOMAIN session_state.questionnaire_responses)

ConsentError == Msg("error", "Please provide consent to continue", <<>>)

IncompleteWithCount ==
    Msg("error", "Please answer all questions to continue",
        <<Answered, Cardinality(Bank)>>)

IncompleteNoCount == Msg("error", "Please answer all questions to continue", <<>>)

FreshSession ==
    IF variant = "four" THEN SessionDefaults ELSE SessionDefaults_old

FreshStart == Msg("info", "Starting fresh assessment", <<>>)

UnableError ==
    Msg("error", "Unable to generate results. Please try again.", <<>>)

InvalidError == Msg("error", "Invalid response from prediction service.", <<>>)

\* the response to the request of the last action was a failure
CallFailed(t) ==
    t.response # None /\ t.response[1].kind \in {"exception", "status"}

\* the buttons whose handlers assign current_step or delete the session
StepButtons ==
    {"start_btn", "back_1", "continue_1", "back_2", "continue_2",
     "new_assessment", "back_to_edit", "motion_start", "skip_motion", "back_3",
     "back_4", "continue_4", "back_5", "continue_5", "back_6", "continue_6",
     "continue_7"}

----------------------------------------------------------------------------
(* The properties *)

\* C1: in both variants current_step is always a step the router of that
\* variant handles (0..3 in the four-step script, 0..8 in the nine-step
\* script), and the page drawn is the page of that step.
C1_StepInRange ==
    /\ variant = "four" => current_step \in 0..3
    /\ variant = "nine" => current_step \in 0..8
    /\ view.step = current_step

C1_Witness ==
    /\ variant = "nine"
    /\ current_step = 8
    /\ event = "continue_7"

\* C2: a press of Continue on BasicInfo moves to step 2 exactly when
\* consent_given is true at the press; without consent the step stays 1;
\* and step 2 is entered from step 1 only by such a press with consent.
C2_ConsentGating ==
    [][/\ (event' = "continue_1" /\ current_step = 1) =>
              (IF session_state.consent_given
               THEN current_step' = 2
               ELSE current_step' = 1)
       /\ (current_step = 1 /\ current_step' = 2) =>
              (session_state.consent_given /\ event' = "continue_1")]_vars

C2_Witness ==
    /\ event = "continue_1"
    /\ current_step = 2
    /\ session_state.consent_given
    /\ session_state.user_data.age # AgeDefault

\* C3: a press of Continue on BasicInfo without consent changes no field of
\* the session (user_data, consent_given, questionnaire_responses, the
\* lookup key, current_step) and step 1 is drawn again.
C3_RefusalKeepsSession ==
    [][(event' = "continue_1" /\ current_step = 1 /\ ~session_state.consent_given) =>
           (session_state' = session_state /\ view'.step = 1)]_vars

C3_Witness ==
    /\ event = "continue_1"
    /\ current_step = 1
    /\ ConsentError \in view.messages
    /\ session_state.user_data.age # AgeDefault
    /\ session_state.user_data.gender = "Female"

C5_ResultsHaveData ==
    current_step >= ResultsStep =>
        /\ {"02", "03", "09", "13", "17", "20"}
               \subseteq DOMAIN session_state.questionnaire_responses
        /\ {"age", "age_at_diagnosis", "gender", "appearance_in_kinship"}
               \subseteq DOMAIN session_state.user_data
        /\ view.request # None => view.request[1].endpoint # "KeyError"

C5_Witness ==
    /\ variant = "nine"
    /\ current_step = 7
    /\ view.request # None
    /\ view.request[1].endpoint = "predict"
    /\ session_state.questionnaire_responses["02"]

\* C6: Back followed at once by the forward action that returns to the
\* step leaves questionnaire_responses and user_data as they were before
\* Back.
C6_BackForwardRestores ==
    (trail.snap # None /\ trail.snap[1].phase = "forward") =>
        /\ session_state.user_data = trail.snap[1].user_data
        /\ session_state.questionnaire_responses
               = trail.snap[1].questionnaire_responses

\* C7: every press of a Back button sets current_step to current_step - 1
\* and changes no other field of the session.
C7_BackOnlyStep ==
    [][event' \in BackEvents =>
           session_state' = [session_state EXCEPT !.current_step = @ - 1]]_vars

\* C8: in the four-step variant, after a Load Data of a record whose answer
\* to 02 is true the radio of 02 is drawn with Yes as its default; and once
\* the user has selected No for 02, the stored answer to 02 is false until
\* the next Load Data.
C8_OverrideSafe ==
    variant = "four" =>
        /\ (event = "load_csv_data" /\ truthy(session_state.id_index)
            /\ dict_get(questionnaire_df[session_state.id_index[1]],
                        TrackedQuestion, 0) # 0) =>
               widgets[QKey(TrackedQuestion)].param = 1
        /\ (trail.override = Some("No")
            /\ TrackedQuestion \in DOMAIN session_state.questionnaire_responses) =>
               session_state.questionnaire_responses[TrackedQuestion] = FALSE

\* C9: Load Data with an index above 0 that has no row in the dataset
\* reports not-found and changes no field of the session, a key loaded
\* earlier included.
C9_MissKeepsSession ==
    [][(event' = "load_csv_data"
        /\ widgets["id_index"].val > 0
        /\ widgets["id_index"].val \notin DOMAIN questionnaire_df) =>
           /\ session_state' = session_state
           /\ Msg("error", "No data found for ID Index", <<widgets["id_index"].val>>)
                  \in view'.messages]_vars

C9_Witness ==
    /\ event = "load_csv_data"
    /\ \E n \in 1..(MaxIndex + 1) :
           Msg("error", "No data found for ID Index", <<n>>) \in view.messages
    /\ truthy(session_state.id_index)
    /\ session_state.user_id # ""

\* C10: a press of New Assessment at the terminal step leaves the session
\* equal to a new one (every field at its default, no widget kept) on the
\* Welcome page.
C10_NewAssessmentResets ==
    [][event' = "new_assessment" =>
           /\ session_state' = FreshSession
           /\ widgets' = EmptyDict
           /\ view'.step = 0]_vars

\* C11: whenever current_step is the terminal step (Results in the
\* four-step script, Closing in the nine-step script) the page offers the
\* New Assessment button, also after a prediction call that failed or
\* returned no prediction field.
C11_NewAssessmentAvailable ==
    current_step = TerminalStep => "new_assessment" \in view.buttons

\* C12: in every reachable state of either script some user action that
\* changes current_step (a Back, a forward action or New Assessment) is
\* enabled, the Results step after a failed or malformed prediction call
\* included.
C12_NoStuckState ==
    \E b \in view.buttons \ view.disabled : b \in StepButtons

\* C13: a prediction call without a response and one with a non-200
\* response end the same way in both scripts: the page shows the error
\* "Unable to generate results" next to the transport message and no
\* result label, current_step is the Results step and no further one, and
\* the session is as it was before the call (as it was before the action
\* when the action began at the Results step, as the submit left it when
\* the action was the submit).
C13_FailuresAlike ==
    [][CallFailed(trail') =>
           /\ view'.messages = api_messages(trail'.response[1]) \cup {UnableError}
           /\ view'.label = ""
           /\ session_state'.current_step = ResultsStep
           /\ current_step = ResultsStep => session_state' = session_state
           /\ current_step # ResultsStep =>
                  (event' = SubmitEvent
                   /\ session_state'
                          = Script(variant, session_state, widgets, event', Quiet).ss)]_vars

C13_Witness ==
    /\ variant = "four"
    /\ event = "continue_2"
    /\ current_step = 3
    /\ trail.response = Some([kind |-> "status", code |-> 500, body |-> EmptyDict])
    /\ UnableError \in view.messages
    /\ Msg("error", "API Error", <<500>>) \in view.messages

\* C14: in both scripts a 200 response without the prediction field is
\* reported as an error and no result label or risk banner is displayed
\* for it.
C14_MissingFieldIsFailure ==
    (/\ trail.response # None
     /\ trail.response[1].kind = "ok"
     /\ "prediction" \notin DOMAIN trail.response[1].body) =>
        /\ \E m \in view.messages : m.level = "error"
        /\ view.label = ""

\* C15: in the four-step script the label displayed is one of Healthy,
\* Parkinson's Disease and Other Motor Disease, and it is the one of the
\* class code returned: 0 -> Healthy, 1 -> Parkinson's Disease,
\* 2 -> Other Motor Disease.
C15_LabelOfClass ==
    variant = "four" =>
        /\ view.label \in {"", "Healthy", "Parkinson's Disease", "Other Motor Disease"}
        /\ (/\ view.step = 3
            /\ trail.response # None
            /\ trail.response[1].kind = "ok"
            /\ "prediction" \in DOMAIN trail.response[1].body) =>
               /\ view.label # ""
               /\ IsValue(trail.response[1].body["prediction"], 0) =>
                      view.label = "Healthy"
               /\ IsValue(trail.response[1].body["prediction"], 1) =>
                      view.label = "Parkinson's Disease"
               /\ IsValue(trail.response[1].body["prediction"], 2) =>
                      view.label = "Other Motor Disease"

\* consent given, the six answers false, the service returns {prediction: 0}
C15_Witness ==
    /\ variant = "four"
    /\ event = "continue_2"
    /\ current_step = 3
    /\ session_state.consent_given
    /\ session_state.user_data.age = 65
    /\ session_state.user_data.gender = "Male"
    /\ session_state.user_data.appearance_in_kinship = "No"
    /\ \A q \in Range(QUESTIONNAIRE) : session_state.questionnaire_responses[q] = FALSE
    /\ trail.response = Some([kind |-> "ok", code |-> 200,
                              body |-> ("prediction" :> [num |-> 0, den |-> 1])])
    /\ view.label = "Healthy"

\* C16: from a successful submit of the questionnaire to the next Back or
\* New Assessment exactly one prediction request is sent: one has been sent
\* whenever the Results step is shown, and no more when Back or New
\* Assessment is pressed.
C16_OneRequest ==
    /\ current_step = ResultsStep => trail.requests = 1
    /\ event \in LeaveEvents => trail.requests = 1

\* C17: the payload make_prediction builds in the four-step script has
\* exactly the keys age, age_at_diagnosis, appearance_in_kinship, gender
\* and 02, 03, 09, 13, 17, 20; the demographic entries are those of
\* user_data, and the entry of a question is 1 when its stored answer is
\* true and 0 when it is false or absent.
C17_PayloadShape ==
    event = "make_prediction" =>
        /\ view.request[1].endpoint = "predict_by_qn"
        /\ DOMAIN view.request[1].payload
               = {"age", "age_at_diagnosis", "appearance_in_kinship", "gender",
                  "02", "03", "09", "13", "17", "20"}
        /\ \A k \in {"age", "age_at_diagnosis", "appearance_in_kinship", "gender"} :
               view.request[1].payload[k] = session_state.user_data[k]
        /\ \A q \in {"02", "03", "09", "13", "17", "20"} :
               view.request[1].payload[q]
                   = IF q \in DOMAIN session_state.questionnaire_responses
                        /\ session_state.questionnaire_responses[q]
                     THEN 1 ELSE 0

C17_Witness ==
    /\ event = "make_prediction"
    /\ DOMAIN session_state.questionnaire_responses = {"03", "04", "09"}
    /\ session_state.questionnaire_responses["03"]
    /\ session_state.questionnaire_responses["04"]
    /\ ~session_state.questionnaire_responses["09"]
    /\ view.request[1].payload["02"] = 0
    /\ view.request[1].payload["03"] = 1
    /\ view.request[1].payload["09"] = 0
    /\ "04" \notin DOMAIN view.request[1].payload

C19_Original ==
    [][(variant = "four" /\ event' # "load_csv_data") =>
           /\ session_state'.id_index = session_state.id_index
           /\ session_state'.user_id = session_state.user_id]_vars

\* C19 as amended: in the four-step script id_index and user_id are left
\* unchanged by every action other than a press of Load Data and a press of
\* New Assessment (typing in the ID input, answering questions, Back and
\* submit included); New Assessment leaves them unchanged or puts them back
\* to their defaults with the rest of the session.
C19_LookupExplicit ==
    [][variant = "four" =>
           /\ event' \notin {"load_csv_data", "new_assessment"} =>
                  /\ session_state'.id_index = session_state.id_index
                  /\ session_state'.user_id = session_state.user_id
           /\ event' = "new_assessment" =>
                  \/ /\ session_state'.id_index = session_state.id_index
                     /\ session_state'.user_id = session_state.user_id
                  \/ session_state' = SessionDefaults]_vars

\* another ID typed over the loaded one, Load Data not pressed
C19_Witness ==
    /\ variant = "four"
    /\ event = "edit_id_index"
    /\ session_state.id_index = Some(1)
    /\ session_state.user_id = "1"
    /\ widgets["id_index"].val = 2

\* C20: in every reachable state of either script, current_step >= 2
\* implies that consent_given is true; going Back to BasicInfo, clearing
\* the consent box and navigating again does not reach a later step
\* without consent.
C20_ConsentBeyondBasicInfo ==
    current_step >= 2 => session_state.consent_given = TRUE

\* the step after BasicInfo, just reached by Continue with the details
\* edited and the consent box ticked
C20_Witness ==
    /\ variant = "nine"
    /\ current_step = 2
    /\ event = "continue_1"
    /\ session_state.consent_given
    /\ session_state.user_data.gender = "Female"

\* C21: in the nine-step script an action changes current_step in one of
\* four ways only: by +1 (Start, the Continue buttons, Start Motion
\* Assessment), by +2 (Skip Motion Data alone, from 3 to 5), by -1 (the
\* Back buttons, at steps 1 to 6 only) or to 0 (Take New Assessment, at
\* step 8 only); Back from step 5 goes to step 4, and from steps 7 and 8
\* the step never decreases except to 0 by Take New Assessment.
C21_StepMoves ==
    [][variant = "nine" =>
           /\ \/ current_step' = current_step
              \/ /\ current_step' = current_step + 1
                 /\ event' \in {"start_btn", "continue_1", "continue_2",
                                "motion_start", "continue_4", "continue_5",
                                "continue_6", "continue_7"}
              \/ /\ current_step' = current_step + 2
                 /\ event' = "skip_motion"
                 /\ current_step = 3
              \/ /\ current_step' = current_step - 1
                 /\ event' \in BackEvents
                 /\ current_step \in 1..6
              \/ /\ current_step' = 0
                 /\ event' = "new_assessment"
                 /\ current_step = 8
           /\ (event' = "back_5" /\ current_step = 5) => current_step' = 4
           /\ current_step \in {7, 8} =>
                  (current_step' >= current_step \/ event' = "new_assessment")]_vars

\* Back from step 5 pressed right after Skip Motion Data
C21_Witness ==
    /\ variant = "nine"
    /\ event = "back_5"
    /\ current_step = 4
    /\ trail.snap # None
    /\ trail.snap[1].via = "skip_motion"

\* C22: in the nine-step script current_step becomes 8 only from step 7,
\* by Continue to Summary, on a run whose prediction call got a 200
\* response; an action whose prediction call fails leaves the session at
\* step 7.
C22_ClosingNeedsSuccess ==
    [][variant = "nine" =>
           /\ (current_step # 8 /\ current_step' = 8) =>
                  /\ current_step = 7
                  /\ event' = "continue_7"
                  /\ trail'.response # None
                  /\ trail'.response[1].kind = "ok"
           /\ CallFailed(trail') => current_step' = 7]_vars

C22_Witness ==
    /\ variant = "nine"
    /\ current_step = 8
    /\ event = "continue_7"
    /\ trail.response # None
    /\ trail.response[1].kind = "ok"
    /\ trail.requests = 2
    /\ "new_assessment" \in view.buttons

\* C23: in the four-step script the prediction request is the by-user-id
\* request exactly when user_id is not empty, and then it carries the user
\* id and nothing else, so that it is the same for all answers and all
\* demographic data; the questionnaire payload is sent exactly when
\* user_id is empty.
C23_RequestByUserId ==
    (variant = "four" /\ view.request # None) =>
        /\ session_state.user_id # "" =>
               /\ view.request[1].endpoint = "predict_by_user_id"
               /\ DOMAIN view.request[1].payload = {"user_id"}
               /\ str(view.request[1].payload["user_id"]) = session_state.user_id
        /\ session_state.user_id = "" =>
               view.request[1].endpoint = "predict_by_qn"

\* the record of ID 1 answers Yes to 02; the user answered No and edited
\* the age
C23_Witness ==
    /\ variant = "four"
    /\ current_step = 3
    /\ session_state.user_id = "1"
    /\ session_state.questionnaire_responses["02"] = FALSE
    /\ session_state.user_data.age # AgeDefault
    /\ view.request = Some([endpoint |-> "predict_by_user_id",
                            payload |-> ("user_id" :> 1)])

\* C24: in every reachable state of the four-step script either id_index
\* is unset and user_id is the empty string, or id_index is a positive
\* index of the dataset and user_id is its decimal string; and
\* existing_user_data is unset.
C24_LookupFieldsCoupled ==
    variant = "four" =>
        /\ \/ /\ session_state.id_index = None
              /\ session_state.user_id = ""
           \/ /\ session_state.id_index # None
              /\ session_state.id_index[1] > 0
              /\ session_state.id_index[1] \in DOMAIN questionnaire_df
              /\ session_state.user_id = str(session_state.id_index[1])
        /\ session_state.existing_user_data = None

\* the record of ID 2 loaded
C24_Witness ==
    /\ variant = "four"
    /\ event = "load_csv_data"
    /\ session_state.id_index = Some(2)
    /\ session_state.user_id = "2"
    /\ session_state.existing_user_data = None

\* C25: in the four-step script a press of Load Data with index 0 clears
\* id_index and user_id, a key loaded before included, reports a fresh
\* assessment and pre-selects No for every question although the dataset
\* has a row 0 with Yes answers; and id_index is never 0.
C25_IndexZeroIsFresh ==
    [][variant = "four" =>
           /\ (event' = "load_csv_data" /\ widgets["id_index"].val = 0) =>
                  /\ session_state'.id_index = None
                  /\ session_state'.user_id = ""
                  /\ FreshStart \in view'.messages
                  /\ \A q \in Range(QUESTIONNAIRE) : widgets'[QKey(q)].param = 0
           /\ session_state'.id_index # Some(0)
           /\ session_state'.user_id # "0"]_vars

C25_Witness ==
    /\ variant = "four"
    /\ event = "load_csv_data"
    /\ FreshStart \in view.messages
    /\ session_state.id_index = None
    /\ session_state.user_id = ""
    /\ widgets["id_index"].val = 0
    /\ 0 \in DOMAIN questionnaire_df
    /\ questionnaire_df[0]["02"] = 1
    /\ widgets[QKey("02")].param = 0

\* C26: in both variants questionnaire_responses is either empty or has
\* exactly the six identifiers of the bank as keys, with boolean values; it
\* is empty in a session just created or reset and not empty when the
\* Questionnaire step is drawn; an identifier of a loaded record outside
\* the bank (04) is never stored; and the refusal
\* "Please answer all questions to continue" is never shown.
C26_ResponsesAllOrNone ==
    LET qr == session_state.questionnaire_responses
    IN  /\ \/ qr = EmptyDict
           \/ /\ DOMAIN qr = Bank
              /\ Cardinality(DOMAIN qr) = 6
              /\ \A q \in DOMAIN qr : qr[q] \in BOOLEAN
        /\ "04" \notin DOMAIN qr
        /\ view.step = QuestionnaireStep => qr # EmptyDict
        /\ view.step < QuestionnaireStep /\ event \in {NoClick, "new_assessment"}
               => qr = EmptyDict
        /\ \A m \in view.messages :
               m.text # "Please answer all questions to continue"

\* the answers submitted with the record of ID 1 loaded, which has an
\* entry for 04
C26_Witness ==
    /\ variant = "four"
    /\ event = "continue_2"
    /\ current_step = 3
    /\ session_state.id_index = Some(1)
    /\ "04" \in DOMAIN questionnaire_df[1]
    /\ DOMAIN session_state.questionnaire_responses = Range(QUESTIONNAIRE)
    /\ session_state.questionnaire_responses["02"]
    /\ ~session_state.questionnaire_responses["03"]

\* the index the radio of q is drawn with when the session is ss: 1 (Yes)
\* when a record is loaded and its entry for q is true, 0 (No) otherwise
default_index(ss, q) ==
    LET idx == ss.id_index
        rec == IF truthy(idx) /\ idx[1] \in DOMAIN questionnaire_df
               THEN questionnaire_df[idx[1]] ELSE EmptyDict
    IN  IF q \in DOMAIN rec /\ rec[q] # 0 THEN 1 ELSE 0

\* every radio of the page shows the answer it was drawn with
Untouched ==
    /\ view.step = 2
    /\ \A q \in Range(QUESTIONNAIRE) :
           widgets[QKey(q)].val = (IF widgets[QKey(q)].param = 1 THEN "Yes" ELSE "No")

\* C27: in the four-step script, whenever the questionnaire is drawn the
\* radio of each question q of the bank is drawn with Yes pre-selected when a
\* record is loaded and its entry for q is true, and with No when the record
\* has no entry for q, its entry is false, or no key is loaded; and after a
\* Load Data that finds the record, no radio having been changed by the
\* user, and on every entry to the step, each radio shows that answer.
C27_PreSelected ==
    [][(variant = "four" /\ view'.step = 2) =>
           /\ \A q \in Range(QUESTIONNAIRE) :
                  widgets'[QKey(q)].param = default_index(session_state', q)
           /\ (\/ view.step # 2
               \/ /\ event' = "load_csv_data"
                  /\ widgets["id_index"].val \in DOMAIN questionnaire_df
                  /\ widgets["id_index"].val > 0
                  /\ Untouched) =>
                  \A q \in Range(QUESTIONNAIRE) :
                      widgets'[QKey(q)].val =
                          (IF default_index(session_state', q) = 1
                           THEN "Yes" ELSE "No")]_vars

\* the record of ID 1 loaded: Yes for 02, No for 03 (no entry) and the rest
C27_Witness ==
    /\ variant = "four"
    /\ event = "load_csv_data"
    /\ session_state.id_index = Some(1)
    /\ questionnaire_df[1]["02"] = 1
    /\ "03" \notin DOMAIN questionnaire_df[1]
    /\ widgets[QKey("02")] = [param |-> 1, val |-> "Yes"]
    /\ \A q \in Range(QUESTIONNAIRE) \ {"02"} :
           widgets[QKey(q)] = [param |-> 0, val |-> "No"]

\* C28: in the four-step script a response that carries a prediction other
\* than 0 and 1 (2, 3, -1, 1/2) is displayed as Other Motor Disease and is
\* reported neither as an invalid response nor as a failed request.
C28_OtherwiseOtherMotor ==
    (/\ variant = "four"
     /\ view.step = 3
     /\ trail.response # None
     /\ trail.response[1].kind = "ok"
     /\ "prediction" \in DOMAIN trail.response[1].body
     /\ ~IsValue(trail.response[1].body["prediction"], 0)
     /\ ~IsValue(trail.response[1].body["prediction"], 1)) =>
        /\ view.label = "Other Motor Disease"
        /\ InvalidError \notin view.messages
        /\ UnableError \notin view.messages
        /\ {"new_assessment", "back_to_edit"} \subseteq view.buttons

\* the service returns {prediction: -1}
C28_Witness ==
    /\ variant = "four"
    /\ event = "continue_2"
    /\ view.step = 3
    /\ trail.response = Some([kind |-> "ok", code |-> 200,
                              body |-> ("prediction" :> [num |-> -1, den |-> 1])])
    /\ view.label = "Other Motor Disease"
    /\ view.messages = {}

\* C29: in the nine-step script, for a response that carries a prediction,
\* the banner is "higher risk" when the prediction is greater than 0.5 and
\* "no significant risk" otherwise: 0.5 itself (and 0, -1) is shown as no
\* significant risk, the class codes 1 and 2 (and 3) as higher risk.
C29_BannerByThreshold ==
    (/\ variant = "nine"
     /\ view.step = 7
     /\ trail.response # None
     /\ trail.response[1].kind = "ok"
     /\ "prediction" \in DOMAIN trail.response[1].body) =>
        LET p == trail.response[1].body["prediction"]
            higher == "higher risk for Parkinson's disease"
            lower == "no significant risk for Parkinson's disease"
        IN  /\ p.den > 0
            /\ view.label \in {higher, lower}
            /\ (view.label = higher) <=> (2 * p.num > p.den)
            /\ p = [num |-> 1, den |-> 2] => view.label = lower
            /\ p \in {[num |-> 1, den |-> 1], [num |-> 2, den |-> 1]} =>
                   view.label = higher
            /\ p \in {[num |-> 0, den |-> 1], [num |-> -1, den |-> 1]} =>
                   view.label = lower

\* the service returns {prediction: 0.5}
C29_Witness ==
    /\ variant = "nine"
    /\ event = "continue_6"
    /\ view.step = 7
    /\ trail.response = Some([kind |-> "ok", code |-> 200,
                              body |-> ("prediction" :> [num |-> 1, den |-> 2])])
    /\ view.label = "no significant risk for Parkinson's disease"

\* C30: in the nine-step script motion_data_uploaded becomes true only by
\* an upload of files at step 4, and once true it stays true through every
\* action (Back, Continue, removing the files, coming back to step 4) but
\* the Take New Assessment that resets the session.
C30_UploadedMonotone ==
    [][variant = "nine" =>
           /\ (~session_state.motion_data_uploaded
               /\ session_state'.motion_data_uploaded) =>
                  /\ view.step = 4
                  /\ current_step' = 4
                  /\ event' = "upload_files"
                  /\ widgets'["uploaded_files"].val > 0
           /\ (session_state.motion_data_uploaded
               /\ ~session_state'.motion_data_uploaded) =>
                  /\ view.step = 8
                  /\ event' = "new_assessment"
                  /\ session_state' = SessionDefaults_old
           /\ (session_state.motion_data_uploaded
               /\ event' \in {"upload_files", "back_4", "continue_4", "back_5",
                              "continue_5", "continue_3"}) =>
                  session_state'.motion_data_uploaded]_vars

\* the files removed from the uploader after an upload
C30_Witness ==
    /\ variant = "nine"
    /\ event = "upload_files"
    /\ view.step = 4
    /\ widgets["uploaded_files"].val = 0
    /\ session_state.motion_data_uploaded

\* C31 as stated: at the terminal step (3 of the four-step script, 8 of the
\* nine-step script) every action other than New Assessment leaves every
\* field of the session unchanged, and no action moves to a higher step.
C31_Original ==
    [][current_step = TerminalStep =>
           /\ event' # "new_assessment" => session_state' = session_state
           /\ current_step' <= TerminalStep]_vars

\* C31 as amended: at the terminal step no action moves to a higher step;
\* New Assessment leaves the session unchanged or puts every field back to
\* its default; in the nine-step script Schedule Retest, Download Results and
\* Health Tips leave current_step at 8 and every field unchanged; in the
\* four-step script Back to Edit leaves the session unchanged or sets
\* current_step to 2, the Questionnaire page it draws storing its answers in
\* questionnaire_responses, and changes no other field; and there is no
\* other action.
C31_TerminalFrame ==
    [][current_step = TerminalStep =>
           /\ current_step' <= TerminalStep
           /\ event' \in {"new_assessment", "back_to_edit", "retest",
                          "download", "tips"}
           /\ event' = "new_assessment" =>
                  \/ session_state' = session_state
                  \/ session_state' = FreshSession
           /\ event' \in {"retest", "download", "tips"} =>
                  /\ variant = "nine"
                  /\ session_state' = session_state
                  /\ current_step' = 8
           /\ event' = "back_to_edit" =>
                  /\ variant = "four"
                  /\ \/ session_state' = session_state
                     \/ /\ current_step' = 2
                        /\ [session_state' EXCEPT
                               !.questionnaire_responses =
                                   session_state.questionnaire_responses] =
                           [session_state EXCEPT !.current_step = 2]]_vars

\* Schedule Retest pressed at step 8, the session as it was
C31_Witness ==
    /\ variant = "nine"
    /\ event = "retest"
    /\ current_step = 8
    /\ view.step = 8
    /\ Msg("info", "Set a reminder to retake this assessment", <<>>) \in view.messages
    /\ session_state.consent_given
    /\ DOMAIN session_state.questionnaire_responses = Range(QUESTIONNAIRE_old)

\* C32: under the cooperative user and service, in either script, once the
\* consent is given the session reaches the terminal step (3 in the
\* four-step script, 8 in the nine-step script); until then the page offers
\* a forward button, and every forward button offered has an outcome that
\* moves one step up (Skip moves from 3 to 5).
C32_ProgressUnderCooperation ==
    /\ [](\A b \in ForwardButtons \cap (view.buttons \ view.disabled) :
             \E h \in Outcomes(variant, session_state, widgets, b) :
                 /\ Cooperative(h)
                 /\ h.result.ss.current_step = current_step + 1
                        \/ (b = "skip_motion" /\ h.result.ss.current_step = 5))
    /\ [](session_state.consent_given /\ current_step # TerminalStep
             => ForwardOffered)
    /\ session_state.consent_given ~> (current_step = TerminalStep)

\* the Closing step reached by Continue to Summary
C32_Witness ==
    /\ variant = "nine"
    /\ event = "continue_7"
    /\ current_step = 8
    /\ view.step = 8
    /\ session_state.consent_given
    /\ trail.response # None
    /\ trail.response[1].kind = "ok"

\* C33: initialize_session_state only fills in the missing fields: every
\* field present keeps its value and every field absent gets its default;
\* on a session with no field it yields the defaults (current_step 0,
\* user_data and questionnaire_responses empty, consent_given false, and in
\* the four-step script user_id empty, id_index and existing_user_data
\* None; in the nine-step script health_history empty and
\* motion_data_uploaded false); on a session with every field it changes
\* nothing; and applied to its own result it changes nothing.
C33_InitializeFillsMissing ==
    [][event' = "initialize_session_state" =>
           LET s == session_state
               t == session_state'
               D == IF variant = "four" THEN DOMAIN SessionDefaults
                    ELSE DOMAIN SessionDefaults_old
           IN  /\ DOMAIN t = DOMAIN s \cup D
               /\ \A k \in DOMAIN s : t[k] = s[k]
               /\ "current_step" \notin DOMAIN s => t.current_step = 0
               /\ "user_data" \notin DOMAIN s => t.user_data = EmptyDict
               /\ "questionnaire_responses" \notin DOMAIN s =>
                      t.questionnaire_responses = EmptyDict
               /\ "consent_given" \notin DOMAIN s => t.consent_given = FALSE
               /\ variant = "four" =>
                      /\ D = {"current_step", "user_data", "questionnaire_responses",
                              "consent_given", "user_id", "existing_user_data",
                              "id_index"}
                      /\ "user_id" \notin DOMAIN s => t.user_id = ""
                      /\ "existing_user_data" \notin DOMAIN s =>
                             t.existing_user_data = None
                      /\ "id_index" \notin DOMAIN s => t.id_index = None
                      /\ initialize_session_state(t) = t
               /\ variant = "nine" =>
                      /\ D = {"current_step", "user_data", "health_history",
                              "motion_data_uploaded", "questionnaire_responses",
                              "consent_given"}
                      /\ "health_history" \notin DOMAIN s =>
                             t.health_history = EmptyDict
                      /\ "motion_data_uploaded" \notin DOMAIN s =>
                             t.motion_data_uploaded = FALSE
                      /\ initialize_session_state_old(t) = t
               /\ D \subseteq DOMAIN s => t = s]_vars

\* an initialised session at the Questionnaire step with a key loaded, as
\* the run left it
C33_Witness ==
    /\ variant = "four"
    /\ event = "initialize_session_state"
    /\ session_state.current_step = 2
    /\ session_state.consent_given
    /\ session_state.user_id = "1"
    /\ session_state.id_index = Some(1)
    /\ session_state.user_data # EmptyDict
    /\ session_state.existing_user_data = None
    /\ session_state.questionnaire_responses = EmptyDict

====
